---- MODULE Spec2Model ----
(***************************************************************************)
(* Model of gdb/dwarf2/comp-unit.c: decoding of the DWARF unit header      *)
(* (read_comp_unit_head, error_check_comp_unit_head,                       *)
(* read_and_check_comp_unit_head, read_offset).                            *)
(*                                                                         *)
(* Wide integers.  LONGEST/ULONGEST values are 64 bits wide and the claims *)
(* are about values at and beyond 2^32, so a wide integer is modelled as   *)
(* the tuple of its 8 bytes, least significant first.  Small quantities    *)
(* (byte counts, the version, the unit type, cursors relative to the       *)
(* unit's first byte) are plain naturals.                                  *)
(***************************************************************************)
EXTENDS Integers, Sequences, FiniteSets, TLC

VARIABLES header, call, result, ret, effective_kind, reads, calls

vars == <<header, call, result, ret, effective_kind, reads, calls>>

----------------------------------------------------------------------------
(* Bounds of the exploration.                                              *)

\* unit-type bytes 0..MaxUnitTypeByte are tried, besides lo_user and hi_user
MaxUnitTypeByte == 8
\* version numbers 0..MaxVersion are tried, besides two 16-bit extremes
MaxVersion == 6
\* section sizes within MaxDelta bytes of the checked boundary are tried
MaxDelta == 1
\* decodes made into one header object
MaxCalls == 2

----------------------------------------------------------------------------
(* Program constants.                                                      *)

DW_UT_compile == 1
DW_UT_type == 2
DW_UT_partial == 3
DW_UT_skeleton == 4
DW_UT_split_compile == 5
DW_UT_split_type == 6
DW_UT_lo_user == 128
DW_UT_hi_user == 255

COMPILE == "COMPILE"
TYPE == "TYPE"
rcuh_kind == {COMPILE, TYPE}

----------------------------------------------------------------------------
(* 64-bit arithmetic on byte tuples.                                       *)

\* F applied to the value of v, v evaluated once
Force(v, F(_)) == CHOOSE y \in {F(x) : x \in {v}} : TRUE

Zero64 == <<0, 0, 0, 0, 0, 0, 0, 0>>

\* n < 2^31 as a wide integer
FromNat(n) ==
  <<n % 256, (n \div 256) % 256, (n \div 65536) % 256, (n \div 16777216) % 256,
    0, 0, 0, 0>>

\* a wide integer known to be below 2^31, as a natural
ToNat(v) == v[1] + 256 * v[2] + 65536 * v[3] + 16777216 * v[4]

\* 2^32 + n, n < 2^31
Pow32Plus(n) ==
  <<n % 256, (n \div 256) % 256, (n \div 65536) % 256, (n \div 16777216) % 256,
    1, 0, 0, 0>>

\* 2^32 - n, 0 < n <= 256
Pow32Minus(n) == <<256 - n, 255, 255, 255, 0, 0, 0, 0>>

\* v narrowed to its low n bytes (an unsigned conversion to an n-byte type)
Narrow(v, n) ==
  Force(v, LAMBDA w :
    LET e(k) == IF k <= n THEN w[k] ELSE 0
    IN <<e(1), e(2), e(3), e(4), e(5), e(6), e(7), e(8)>>)

RECURSIVE CmpFrom(_, _, _)
CmpFrom(a, b, k) ==
  IF k = 0 THEN 0
  ELSE IF a[k] < b[k] THEN -1
  ELSE IF a[k] > b[k] THEN 1
  ELSE CmpFrom(a, b, k - 1)

\* unsigned comparisons
Less(a, b) == Force(<<a, b>>, LAMBDA w : CmpFrom(w[1], w[2], 8) < 0)
LessEq(a, b) == Force(<<a, b>>, LAMBDA w : CmpFrom(w[1], w[2], 8) <= 0)

RECURSIVE AddFrom(_, _, _, _, _)
AddFrom(a, b, k, carry, n) ==
  IF k > n THEN <<>>
  ELSE LET s == a[k] + b[k] + carry
       IN <<s % 256>> \o AddFrom(a, b, k + 1, s \div 256, n)

\* a + b modulo 2^(8n), widened back to 8 bytes
AddMod(a, b, n) ==
  Force(<<a, b>>, LAMBDA w : Narrow(AddFrom(w[1], w[2], 1, 0, n) \o Zero64, n))

\* a - 1 modulo 2^64: a byte borrows when every lower byte is 0
Pred(a) ==
  Force(a, LAMBDA w :
    LET e(k) == IF \A j \in 1..(k - 1) : w[j] = 0 THEN (w[k] + 255) % 256 ELSE w[k]
    IN <<e(1), e(2), e(3), e(4), e(5), e(6), e(7), e(8)>>)

\* a + 1 (a below 2^64 - 1)
Succ(a) == AddMod(a, FromNat(1), 8)

----------------------------------------------------------------------------
(* The byte stream and the primitive readers (dwarf2/leb.h).  A stream is  *)
(* the bytes from the unit's first byte on; a cursor is a byte count from  *)
(* that byte.  abfd carries the object file's byte order and its address   *)
(* sign-extension policy.                                                  *)

ByteAt(buf, p) == buf[p + 1]

\* the n-byte unsigned integer at cursor p, in the object file's byte order
read_n_bytes(abfd, buf, p, n) ==
  Force(p, LAMBDA q :
    LET e(k) == IF k > n THEN 0
                ELSE IF abfd.big_endian THEN ByteAt(buf, q + n - k)
                ELSE ByteAt(buf, q + k - 1)
    IN <<e(1), e(2), e(3), e(4), e(5), e(6), e(7), e(8)>>)

read_1_byte(abfd, buf, p) == ByteAt(buf, p)

read_2_bytes(abfd, buf, p) == ToNat(read_n_bytes(abfd, buf, p, 2))

read_8_bytes(abfd, buf, p) == read_n_bytes(abfd, buf, p, 8)

IsEscape(v) == v = <<255, 255, 255, 255, 0, 0, 0, 0>>

\* the initial length: 4 bytes, or the escape marker and 8 more bytes
read_initial_length(abfd, buf, p) ==
  LET first == read_n_bytes(abfd, buf, p, 4)
  IN IF IsEscape(first)
     THEN [value |-> read_n_bytes(abfd, buf, p + 4, 8), bytes_read |-> 12]
     ELSE [value |-> first, bytes_read |-> 4]

\* read_offset (abfd, buf, offset_size): a 4- or 8-byte offset, zero-extended
read_offset_sized(abfd, buf, p, offset_size) ==
  read_n_bytes(abfd, buf, p, offset_size)

\* faulty variant: the offset read 8 bytes wide whatever the unit's offset size
read_offset_always_8(abfd, buf, p, cu_header) ==
  [value |-> read_offset_sized(abfd, buf, p, 8),
   bytes_read |-> cu_header.offset_size]

\* read_offset (abfd, buf, cu_header, &bytes_read)
read_offset(abfd, buf, p, cu_header) ==
  [value |-> read_offset_sized(abfd, buf, p, cu_header.offset_size),
   bytes_read |-> cu_header.offset_size]

bfd_get_sign_extend_vma(abfd) == abfd.sign_extend_vma

----------------------------------------------------------------------------
(* struct comp_unit_head and the conversions on stores into it.            *)

Fields ==
  {"length", "initial_length_size", "offset_size", "version", "unit_type",
   "addr_size", "abbrev_sect_off", "signed_addr_p", "signature",
   "type_cu_offset_in_tu", "sect_off", "first_die_cu_offset"}

\* a value-initialised header
ZeroHeader ==
  [length |-> Zero64, initial_length_size |-> 0, offset_size |-> 0,
   version |-> 0, unit_type |-> 0, addr_size |-> 0,
   abbrev_sect_off |-> Zero64, signed_addr_p |-> 0, signature |-> Zero64,
   type_cu_offset_in_tu |-> Zero64, sect_off |-> Zero64,
   first_die_cu_offset |-> 0]

\* cu_header->length = read_initial_length (...): the field is an int-sized
\* unsigned (it is printed with 0x%x), so the 64-bit value is narrowed
length_store(v) == Narrow(v, 4)

\* (cu_offset) type_offset: the narrowing of the type offset
cu_offset_cast(v, offset_size) == Narrow(v, offset_size)

\* (sect_offset) of an offset read from the stream: stored as read
sect_offset_cast(v) == v

\* header->get_length ()
get_length(h) == h.length

----------------------------------------------------------------------------
(* read_comp_unit_head, statement by statement.  A decode state d is the   *)
(* header as written so far (h), the cursor (info_ptr, NoCursor once the   *)
(* call has raised), the section kind in force (kind), the reads made from *)
(* the stream (reads) and the error raised (err, "" while none is).        *)

NoCursor == 0 - 1

Rd(field, at, width) == [field |-> field, at |-> at, width |-> width]

\* error (...) / internal_error (...): the call ends without returning
Raise(d, err) == [d EXCEPT !.err = err, !.info_ptr = NoCursor]

\* the next statement, unless the call has raised
Then(d, Step(_)) == Force(d, LAMBDA x : IF x.err # "" THEN x ELSE Step(x))

Start(cu_header, section_kind) ==
  [h |-> cu_header, info_ptr |-> 0, kind |-> section_kind, reads |-> <<>>, err |-> ""]

\* cu_header->offset_size = (bytes_read == 4) ? 4 : 8
offset_size_for(bytes_read) == IF bytes_read = 4 THEN 4 ELSE 8

\* lines 74-77
s_initial_length(d, buf, abfd) ==
  LET il == read_initial_length(abfd, buf, d.info_ptr)
  IN [d EXCEPT !.h = [d.h EXCEPT !.length = length_store(il.value),
                                 !.initial_length_size = il.bytes_read,
                                 !.offset_size = offset_size_for(il.bytes_read)],
               !.info_ptr = d.info_ptr + il.bytes_read,
               !.reads = Append(d.reads, Rd("length", d.info_ptr, il.bytes_read))]

\* line 78
s_version_read(d, buf, abfd) ==
  [d EXCEPT !.h = [d.h EXCEPT !.version = read_2_bytes(abfd, buf, d.info_ptr)],
            !.reads = Append(d.reads, Rd("version", d.info_ptr, 2))]

\* faulty variant: version 6 let through
version_bad_above_6(version) == version < 2 \/ version > 6

\* if (cu_header->version < 2 || cu_header->version > 5) error (...)
version_bad(version) == version < 2 \/ version > 5

\* lines 79-83
s_version_check(d) ==
  IF version_bad(d.h.version) THEN Raise(d, "BadVersion")
  ELSE [d EXCEPT !.info_ptr = d.info_ptr + 2]

\* faulty variant: the compile-like unit types accepted under any expected kind
unit_type_outcome_lax(unit_type, section_kind) ==
  IF unit_type \in {DW_UT_compile, DW_UT_partial, DW_UT_skeleton, DW_UT_split_compile}
  THEN [err |-> "", kind |-> section_kind]
  ELSE IF unit_type \in {DW_UT_type, DW_UT_split_type}
  THEN [err |-> "", kind |-> TYPE]
  ELSE [err |-> "BadUnitType", kind |-> section_kind]

\* switch (cu_header->unit_type) of the version-5 branch
unit_type_outcome(unit_type, section_kind) ==
  IF unit_type \in {DW_UT_compile, DW_UT_partial, DW_UT_skeleton, DW_UT_split_compile}
  THEN [err |-> IF section_kind # COMPILE THEN "BadUnitType" ELSE "",
        kind |-> section_kind]
  ELSE IF unit_type \in {DW_UT_type, DW_UT_split_type}
  THEN [err |-> "", kind |-> TYPE]
  ELSE [err |-> "BadUnitType", kind |-> section_kind]

\* faulty variant: the address size read without advancing the cursor
addr_size_width_none(version) == 0

\* info_ptr += 1 after the address size (lines 130 and 139)
addr_size_width(version) == 1

\* lines 129-130 and 138-139
s_addr_size(d, buf, abfd) ==
  [d EXCEPT !.h = [d.h EXCEPT !.addr_size = read_1_byte(abfd, buf, d.info_ptr)],
            !.info_ptr = d.info_ptr + addr_size_width(d.h.version),
            !.reads = Append(d.reads, Rd("addr_size", d.info_ptr, 1))]

\* lines 99-127: the unit-type byte of version 5 and its cross-check
s_unit_type_byte(d, buf, abfd) ==
  LET unit_type == read_1_byte(abfd, buf, d.info_ptr)
      o == unit_type_outcome(unit_type, d.kind)
      d1 == [d EXCEPT !.h = [d.h EXCEPT !.unit_type = unit_type],
                      !.info_ptr = d.info_ptr + 1,
                      !.kind = o.kind,
                      !.reads = Append(d.reads, Rd("unit_type", d.info_ptr, 1))]
  IN IF o.err # "" THEN Raise(d1, o.err) ELSE d1

\* faulty variant: no unit type set for a header older than version 5
s_unit_type_no_synthesis(d, buf, abfd) ==
  IF d.h.version < 5 THEN d
  ELSE Then(s_unit_type_byte(d, buf, abfd), LAMBDA x : s_addr_size(x, buf, abfd))

\* lines 84-131
s_unit_type(d, buf, abfd) ==
  IF d.h.version < 5
  THEN [d EXCEPT !.h = [d.h EXCEPT !.unit_type =
                          IF d.kind = COMPILE THEN DW_UT_compile ELSE DW_UT_type]]
  ELSE Then(s_unit_type_byte(d, buf, abfd), LAMBDA x : s_addr_size(x, buf, abfd))

\* lines 132-135
s_abbrev_offset(d, buf, abfd) ==
  LET ro == read_offset(abfd, buf, d.info_ptr, d.h)
  IN [d EXCEPT !.h = [d.h EXCEPT !.abbrev_sect_off = sect_offset_cast(ro.value)],
               !.info_ptr = d.info_ptr + ro.bytes_read,
               !.reads = Append(d.reads, Rd("abbrev_sect_off", d.info_ptr, ro.bytes_read))]

\* lines 136-140
s_addr_size_before_5(d, buf, abfd) ==
  IF d.h.version < 5 THEN s_addr_size(d, buf, abfd) ELSE d

\* lines 141-145
s_signed_addr(d, abfd) ==
  LET signed_addr == bfd_get_sign_extend_vma(abfd)
  IN IF signed_addr < 0 THEN Raise(d, "InvalidObjectFile")
     ELSE [d EXCEPT !.h = [d.h EXCEPT !.signed_addr_p = signed_addr]]

\* faulty variant: the signature read for type-like units only
header_has_signature_type_only(section_kind, unit_type) == section_kind = TYPE

\* bool header_has_signature = ... (lines 147-149)
header_has_signature(section_kind, unit_type) ==
  \/ section_kind = TYPE
  \/ unit_type = DW_UT_skeleton
  \/ unit_type = DW_UT_split_compile

\* lines 151-155
s_signature(d, buf, abfd) ==
  IF header_has_signature(d.kind, d.h.unit_type)
  THEN [d EXCEPT !.h = [d.h EXCEPT !.signature = read_8_bytes(abfd, buf, d.info_ptr)],
                 !.info_ptr = d.info_ptr + 8,
                 !.reads = Append(d.reads, Rd("signature", d.info_ptr, 8))]
  ELSE d

\* if (to_underlying (cu_header->type_cu_offset_in_tu) != type_offset) error
type_offset_too_big(type_offset, stored) == stored # type_offset

\* lines 157-167
s_type_offset(d, buf, abfd) ==
  IF d.kind = TYPE
  THEN LET ro == read_offset(abfd, buf, d.info_ptr, d.h)
           stored == cu_offset_cast(ro.value, d.h.offset_size)
           d1 == [d EXCEPT !.h = [d.h EXCEPT !.type_cu_offset_in_tu = stored],
                           !.info_ptr = d.info_ptr + ro.bytes_read,
                           !.reads = Append(d.reads,
                                            Rd("type_cu_offset_in_tu", d.info_ptr,
                                               ro.bytes_read))]
       IN IF type_offset_too_big(ro.value, stored)
          THEN Raise(d1, "TypeOffsetTooLarge")
          ELSE d1
  ELSE d

\* lines 132-169
read_fields(d, buf, abfd) ==
  Then(Then(Then(Then(s_abbrev_offset(d, buf, abfd),
                      LAMBDA x : s_addr_size_before_5(x, buf, abfd)),
                 LAMBDA x : s_signed_addr(x, abfd)),
            LAMBDA x : s_signature(x, buf, abfd)),
       LAMBDA x : s_type_offset(x, buf, abfd))

\* faulty variant: the version checked only after the unit type is resolved
read_comp_unit_head_late_version_check(cu_header, buf, abfd, section_kind) ==
  Then(Then(Then(Then(s_initial_length(Start(cu_header, section_kind), buf, abfd),
                      LAMBDA x : s_version_read(x, buf, abfd)),
                 LAMBDA x : s_unit_type([x EXCEPT !.info_ptr = x.info_ptr + 2], buf, abfd)),
            LAMBDA x : s_version_check([x EXCEPT !.info_ptr = x.info_ptr - 2])),
       LAMBDA x : read_fields(x, buf, abfd))

read_comp_unit_head(cu_header, buf, abfd, section_kind) ==
  Then(Then(Then(Then(s_initial_length(Start(cu_header, section_kind), buf, abfd),
                      LAMBDA x : s_version_read(x, buf, abfd)),
                 LAMBDA x : s_version_check(x)),
            LAMBDA x : s_unit_type(x, buf, abfd)),
       LAMBDA x : read_fields(x, buf, abfd))

----------------------------------------------------------------------------
(* error_check_comp_unit_head and read_and_check_comp_unit_head.           *)

\* faulty variant: an offset equal to the section size let through
abbrev_offset_bad_off_by_one(h, abbrev_size) == Less(abbrev_size, h.abbrev_sect_off)

\* to_underlying (header->abbrev_sect_off) >= abbrev_section->get_size (...)
abbrev_offset_bad(h, abbrev_size) == LessEq(abbrev_size, h.abbrev_sect_off)

\* faulty variant: the sum taken in 32-bit arithmetic
unit_length_bad_32bit(h, section_size) ==
  Less(section_size, AddMod(h.sect_off, get_length(h), 4))

\* ((ULONGEST) header->sect_off + header->get_length ()) > section->size
unit_length_bad(h, section_size) ==
  Less(section_size, AddMod(h.sect_off, get_length(h), 8))

error_check_comp_unit_head(h, section_size, abbrev_size) ==
  IF abbrev_offset_bad(h, abbrev_size) THEN "BadAbbrevOffset"
  ELSE IF unit_length_bad(h, section_size) THEN "BadUnitLength"
  ELSE ""

read_and_check_comp_unit_head(hdr, buf, abfd, section_kind, sect_off, section_size, abbrev_size) ==
  Then(read_comp_unit_head([hdr EXCEPT !.sect_off = sect_offset_cast(sect_off)],
                           buf, abfd, section_kind),
       LAMBDA x :
         LET h1 == [x.h EXCEPT !.first_die_cu_offset = x.info_ptr]
             err == error_check_comp_unit_head(h1, section_size, abbrev_size)
         IN IF err # "" THEN Raise([x EXCEPT !.h = h1], err)
            ELSE [x EXCEPT !.h = h1])

----------------------------------------------------------------------------
(* The units decoded.  A unit is described by the field values its         *)
(* producer wrote; Stream lays them out as the DWARF standard does for the *)
(* unit's version (initial length, version, then unit type and address     *)
(* size ahead of the abbrev offset for version 5 and the abbrev offset     *)
(* ahead of the address size before it, then signature and type offset for *)
(* the unit types that carry them), followed by the unit's DIE bytes.      *)

put(v, n, big_endian) ==
  LET e(k) == IF k > n THEN 0 ELSE IF big_endian THEN v[n + 1 - k] ELSE v[k]
  IN SubSeq(<<e(1), e(2), e(3), e(4), e(5), e(6), e(7), e(8)>>, 1, n)

unit_offset_size(u) == IF u.initial_length_size = 4 THEN 4 ELSE 8

unit_has_signature(u) ==
  u.unit_type \in {DW_UT_type, DW_UT_split_type, DW_UT_skeleton, DW_UT_split_compile}

unit_has_type_offset(u) == u.unit_type \in {DW_UT_type, DW_UT_split_type}

Encode(u) ==
  LET be == u.big_endian
      os == unit_offset_size(u)
      il == IF u.initial_length_size = 4
            THEN put(u.length, 4, be)
            ELSE <<255, 255, 255, 255>> \o put(u.length, 8, be)
      ver == put(FromNat(u.version), 2, be)
      mid == IF u.version >= 5
             THEN <<u.unit_type, u.addr_size>> \o put(u.abbrev_sect_off, os, be)
             ELSE put(u.abbrev_sect_off, os, be) \o <<u.addr_size>>
      sig == IF unit_has_signature(u) THEN put(u.signature, 8, be) ELSE <<>>
      toff == IF unit_has_type_offset(u)
              THEN put(u.type_cu_offset_in_tu,
                       IF u.wide_type_offset THEN 8 ELSE os, be)
              ELSE <<>>
  IN il \o ver \o mid \o sig \o toff

DieBytes ==
  <<17, 17, 17, 17, 17, 17, 17, 17, 17, 17, 17, 17, 17, 17, 17, 17,
    17, 17, 17, 17, 17, 17, 17, 17, 17, 17, 17, 17, 17, 17, 17, 17>>

Stream(u) == Encode(u) \o DieBytes

Abfd(c) == [big_endian |-> c.unit.big_endian, sign_extend_vma |-> c.sign_extend_vma]

Sig0 == <<17, 34, 51, 68, 85, 102, 119, 136>>

Unit(ils, ver, ut) ==
  [initial_length_size |-> ils, length |-> FromNat(20), version |-> ver,
   unit_type |-> ut, addr_size |-> 8, abbrev_sect_off |-> FromNat(16),
   signature |-> Sig0, type_cu_offset_in_tu |-> FromNat(29),
   wide_type_offset |-> FALSE, big_endian |-> FALSE]

\* the version / unit type pairs a producer may legally emit
LegalVersionType ==
  ({2, 3, 4} \X {DW_UT_compile, DW_UT_type}) \cup ({5} \X (DW_UT_compile..DW_UT_split_type))

LegalUnits == {Unit(ils, vt[1], vt[2]) : ils \in {4, 12}, vt \in LegalVersionType}

NaturalKind(u) == IF unit_has_type_offset(u) THEN TYPE ELSE COMPILE

UnitTypeBytes == (0..MaxUnitTypeByte) \cup {DW_UT_lo_user, DW_UT_hi_user}

Versions == (0..MaxVersion) \cup {32771, 65535}

Raw(u, k) ==
  [entry |-> "raw", unit |-> u, buf |-> Stream(u), section_kind |-> k,
   sign_extend_vma |-> 0, sect_off |-> Zero64, section_size |-> Zero64,
   abbrev_size |-> Zero64]

Checked(u, k, off, size, asize) ==
  [entry |-> "checked", unit |-> u, buf |-> Stream(u), section_kind |-> k,
   sign_extend_vma |-> 0, sect_off |-> off, section_size |-> size,
   abbrev_size |-> asize]

RECURSIVE Shift(_, _)
Shift(v, d) ==
  IF d = 0 THEN v ELSE IF d > 0 THEN Shift(Succ(v), d - 1) ELSE Shift(Pred(v), d + 1)

Deltas == (0 - MaxDelta)..MaxDelta

\* version-5 units of every unit-type byte, under either expected kind
UnitTypeCalls ==
  {Raw(Unit(4, 5, ut), k) : ut \in UnitTypeBytes, k \in rcuh_kind}

\* units of every version, and pre-version-5 units under either expected kind
VersionCalls ==
  {Raw(Unit(4, v, DW_UT_compile), COMPILE) : v \in Versions \ {5}}
  \cup {Raw(Unit(4, 4, DW_UT_type), TYPE), Raw(Unit(4, 2, DW_UT_type), COMPILE)}

\* 64-bit DWARF and big-endian units
WideCalls ==
  {Raw(u, NaturalKind(u)) :
     u \in {Unit(12, 4, DW_UT_compile), Unit(12, 3, DW_UT_type),
            Unit(12, 5, DW_UT_type), Unit(12, 5, DW_UT_skeleton),
            [Unit(4, 4, DW_UT_type) EXCEPT !.big_endian = TRUE],
            [Unit(12, 5, DW_UT_split_type) EXCEPT !.big_endian = TRUE],
            [Unit(12, 4, DW_UT_compile) EXCEPT !.length = Pow32Plus(20)]}}

\* type offsets at and around 2^32; a 32-bit unit can carry one only if its
\* producer wrote the field 8 bytes wide
TypeOffsetCalls ==
  {Raw([Unit(12, 5, DW_UT_type) EXCEPT !.type_cu_offset_in_tu = t], TYPE) :
     t \in {Pow32Plus(0), <<255, 255, 255, 255, 255, 255, 255, 255>>}}
  \cup {Raw([Unit(4, 4, DW_UT_type) EXCEPT !.type_cu_offset_in_tu = Pow32Plus(0),
                                            !.wide_type_offset = TRUE], TYPE)}

SignCalls ==
  {[Raw(Unit(4, 4, DW_UT_compile), COMPILE) EXCEPT !.sign_extend_vma = -1],
   [Raw(Unit(4, 5, DW_UT_type), TYPE) EXCEPT !.sign_extend_vma = 1]}

CheckedCalls ==
  {Checked(Unit(4, 4, DW_UT_compile), COMPILE, FromNat(64), FromNat(256), FromNat(32)),
   Checked(Unit(12, 5, DW_UT_type), COMPILE, FromNat(96), FromNat(256), FromNat(32)),
   Checked(Unit(4, 5, DW_UT_skeleton), COMPILE, FromNat(64), FromNat(256), FromNat(16)),
   Checked(Unit(4, 3, DW_UT_type), TYPE, FromNat(64), FromNat(83), FromNat(32)),
   Checked(Unit(4, 5, DW_UT_partial), TYPE, FromNat(64), FromNat(256), FromNat(32))}

\* every legal unit under its own kind, through both entry points
LegalCalls ==
  {Raw(u, NaturalKind(u)) : u \in LegalUnits}
  \cup {Checked(u, NaturalKind(u), FromNat(64), FromNat(256), FromNat(32)) :
          u \in LegalUnits}

\* the calls of Spec: the header layouts
HeaderCalls ==
  UnitTypeCalls \cup VersionCalls \cup WideCalls \cup TypeOffsetCalls
  \cup SignCalls \cup CheckedCalls \cup LegalCalls

LengthBoundUnits ==
  {<<Unit(4, 4, DW_UT_compile), FromNat(64)>>,
   <<Unit(4, 4, DW_UT_compile), Pow32Minus(16)>>,
   <<Unit(4, 4, DW_UT_compile), Pow32Plus(64)>>,
   <<[Unit(4, 3, DW_UT_type) EXCEPT !.length = Pow32Minus(16)], FromNat(64)>>,
   <<[Unit(4, 3, DW_UT_type) EXCEPT !.length = Pow32Minus(16)], Pow32Minus(16)>>,
   <<[Unit(12, 5, DW_UT_compile) EXCEPT !.length = Pow32Minus(1)], Pow32Minus(1)>>,
   <<[Unit(12, 4, DW_UT_compile) EXCEPT !.length = Pow32Plus(20)], FromNat(64)>>}

\* section sizes around sect_off + get_length, with the abbrev check passing
LengthBoundCalls ==
  {Checked(uo[1], NaturalKind(uo[1]), uo[2],
           Shift(AddMod(uo[2], uo[1].length, 8), d), FromNat(32)) :
     uo \in LengthBoundUnits, d \in Deltas}

AbbrevBoundUnits ==
  {Unit(4, 4, DW_UT_compile),
   [Unit(12, 5, DW_UT_skeleton) EXCEPT !.abbrev_sect_off = Pow32Plus(16)],
   [Unit(12, 2, DW_UT_type) EXCEPT !.abbrev_sect_off = Pow32Minus(1)]}

\* abbrev section sizes around abbrev_sect_off, with the length check passing
AbbrevBoundCalls ==
  {Checked(u, NaturalKind(u), FromNat(64), FromNat(256),
           Shift(Succ(u.abbrev_sect_off), d)) :
     u \in AbbrevBoundUnits, d \in Deltas}

\* the calls of SpecBounds: the section bounds
BoundsCalls ==
  LengthBoundCalls \cup AbbrevBoundCalls
  \cup {Raw(Unit(4, 4, DW_UT_compile), COMPILE), Raw(Unit(4, 1, DW_UT_compile), COMPILE),
        Raw(Unit(12, 5, DW_UT_type), COMPILE)}

NoCall == [Raw(Unit(4, 0, 0), COMPILE) EXCEPT !.entry = "none"]

----------------------------------------------------------------------------
(* The state machine: a caller's header object and the calls made on it.   *)
(* calls counts the decodes made into the object so far.                   *)

Outcome(h, c) ==
  IF c.entry = "raw"
  THEN read_comp_unit_head(h, c.buf, Abfd(c), c.section_kind)
  ELSE read_and_check_comp_unit_head(h, c.buf, Abfd(c), c.section_kind,
                                     c.sect_off, c.section_size, c.abbrev_size)

Apply(c) ==
  \E r \in {Outcome(header, c)} :
     /\ header' = r.h
     /\ call' = c
     /\ result' = IF r.err = "" THEN "ok" ELSE r.err
     /\ ret' = r.info_ptr
     /\ effective_kind' = r.kind
     /\ reads' = r.reads
     /\ calls' = calls + 1

Init ==
  /\ header = ZeroHeader
  /\ call = NoCall
  /\ result = "none"
  /\ ret = NoCursor
  /\ effective_kind = COMPILE
  /\ reads = <<>>
  /\ calls = 0

ReadCompUnitHead(S) ==
  /\ calls < MaxCalls
  /\ \E c \in S : c.entry = "raw" /\ Apply(c)

ReadAndCheckCompUnitHead(S) ==
  /\ calls < MaxCalls
  /\ \E c \in S : c.entry = "checked" /\ Apply(c)

Next == ReadCompUnitHead(HeaderCalls) \/ ReadAndCheckCompUnitHead(HeaderCalls)

Spec == Init /\ [][Next]_vars

NextBounds == ReadCompUnitHead(BoundsCalls) \/ ReadAndCheckCompUnitHead(BoundsCalls)

SpecBounds == Init /\ [][NextBounds]_vars

----------------------------------------------------------------------------
(* Properties.  A call has been made when result is not "none"; the call   *)
(* and the unit it decoded are in call, what it left behind in header,     *)
(* result, ret, effective_kind and reads.                                  *)

Called == result # "none"

CompileLikeTypes == {DW_UT_compile, DW_UT_partial, DW_UT_skeleton, DW_UT_split_compile}
TypeLikeTypes == {DW_UT_type, DW_UT_split_type}

HasRead(f) == \E i \in 1..Len(reads) : reads[i].field = f

IndexOf(f) == CHOOSE i \in 1..Len(reads) : reads[i].field = f

RECURSIVE SumWidths(_)
SumWidths(rds) == IF rds = <<>> THEN 0 ELSE Head(rds).width + SumWidths(Tail(rds))

\* C1: for a version-5 header, a unit-type byte of type or split_type passes
\* the unit-type check and makes the effective kind type-like under either
\* expected kind; compile, partial, skeleton and split_compile pass exactly
\* when the expected kind is compile-like; every other byte fails with
\* BadUnitType.
C1_UnitTypeTable ==
  (Called /\ call.unit.version = 5) =>
    LET b == call.unit.unit_type
    IN /\ b \in TypeLikeTypes =>
            result # "BadUnitType" /\ effective_kind = TYPE
       /\ b \in CompileLikeTypes =>
            /\ (result = "BadUnitType") <=> (call.section_kind # COMPILE)
            /\ result # "BadUnitType" => effective_kind = COMPILE
       /\ b \notin (TypeLikeTypes \cup CompileLikeTypes) => result = "BadUnitType"

C1_Witness ==
  /\ Called /\ call.unit.version = 5
  /\ call.unit.unit_type = DW_UT_split_type
  /\ call.section_kind = COMPILE
  /\ result = "ok" /\ effective_kind = TYPE

\* C7: the decode fails with BadVersion exactly when the 2-byte version that
\* follows the initial length is outside 2..5, having read nothing but the
\* initial length and the version; a header of a successful decode has a
\* version in 2..5.
C7_BadVersion ==
  Called =>
    /\ (result = "BadVersion") <=> (call.unit.version \notin 2..5)
    /\ Len(reads) >= 2
    /\ reads[1] = Rd("length", 0, call.unit.initial_length_size)
    /\ reads[2] = Rd("version", call.unit.initial_length_size, 2)
    /\ result = "BadVersion" => Len(reads) = 2 /\ ret = NoCursor
    /\ result = "ok" => header.version \in 2..5 /\ header.version = call.unit.version

C7_Witness ==
  /\ result = "BadVersion" /\ call.unit.version = 6
  /\ Len(reads) = 2 /\ ~HasRead("unit_type")

\* C5: in a successful decode the 8-byte signature is read exactly when the
\* effective kind is type-like or the unit type is skeleton or
\* split_compile, the type offset (offset_size bytes) exactly when the
\* effective kind is type-like; the signature precedes the type offset, and
\* both follow the abbrev offset and the address size.
C5_OptionalFields ==
  result = "ok" =>
    /\ HasRead("signature") <=>
         (effective_kind = TYPE
          \/ header.unit_type \in {DW_UT_skeleton, DW_UT_split_compile})
    /\ HasRead("type_cu_offset_in_tu") <=> (effective_kind = TYPE)
    /\ HasRead("abbrev_sect_off") /\ HasRead("addr_size")
    /\ \A f \in {"signature", "type_cu_offset_in_tu"} :
         HasRead(f) =>
           /\ reads[IndexOf(f)].width = IF f = "signature" THEN 8 ELSE header.offset_size
           /\ \A g \in {"abbrev_sect_off", "addr_size"} :
                /\ IndexOf(g) < IndexOf(f)
                /\ reads[IndexOf(g)].at + reads[IndexOf(g)].width <= reads[IndexOf(f)].at
    /\ (HasRead("signature") /\ HasRead("type_cu_offset_in_tu")) =>
         /\ IndexOf("signature") < IndexOf("type_cu_offset_in_tu")
         /\ reads[IndexOf("signature")].at + 8 = reads[IndexOf("type_cu_offset_in_tu")].at

C5_Witness ==
  /\ result = "ok"
  /\ header.unit_type = DW_UT_skeleton
  /\ HasRead("signature") /\ ~HasRead("type_cu_offset_in_tu")
  /\ header.signature = Sig0

\* C9: after a successful checked decode, first_die_cu_offset is the number
\* of header bytes consumed and the returned cursor is the unit's start plus
\* it: initial_length_size + 2 + offset_size + 1, plus 1 for the unit-type
\* byte of version 5 only, plus 8 when the signature is read, plus
\* offset_size when the type offset is read.
C9_FirstDieOffset ==
  (call.entry = "checked" /\ result = "ok") =>
    /\ header.first_die_cu_offset = ret
    /\ ret = SumWidths(reads)
    /\ ret = header.initial_length_size + 2 + header.offset_size + 1
             + (IF header.version = 5 THEN 1 ELSE 0)
             + (IF HasRead("signature") THEN 8 ELSE 0)
             + (IF HasRead("type_cu_offset_in_tu") THEN header.offset_size ELSE 0)
    /\ HasRead("unit_type") <=> (header.version = 5)
    /\ header.version < 5 =>
         header.unit_type = IF call.section_kind = COMPILE THEN DW_UT_compile
                            ELSE DW_UT_type
    /\ \A i \in 1..Len(reads) : reads[i].at = SumWidths(SubSeq(reads, 1, i - 1))

C9_Witness ==
  /\ call.entry = "checked" /\ result = "ok"
  /\ header.version = 4 /\ header.unit_type = DW_UT_compile
  /\ header.initial_length_size = 4
  /\ header.first_die_cu_offset = 11 /\ ret = 11

DecodeErrors == {"BadVersion", "BadUnitType", "InvalidObjectFile", "TypeOffsetTooLarge"}

\* a + b <= c, the sum taken exactly (9 bytes)
ExactSumLessEq(a, b, c) ==
  Force(<<a \o <<0>>, b \o <<0>>, c \o <<0>>>>, LAMBDA w :
    Force(AddFrom(w[1], w[2], 1, 0, 9), LAMBDA sum : CmpFrom(sum, w[3], 9) <= 0))

C8_AbbrevOffset ==
  (call.entry = "checked" /\ Called /\ result \notin DecodeErrors) =>
    /\ header.abbrev_sect_off = call.unit.abbrev_sect_off
    /\ (result = "BadAbbrevOffset") <=>
         ~Less(call.unit.abbrev_sect_off, call.abbrev_size)

C8_Witness ==
  /\ call.entry = "checked" /\ result = "ok"
  /\ header.offset_size = 8
  /\ header.abbrev_sect_off = Pow32Plus(16)
  /\ call.abbrev_size = Pow32Plus(17)

\* the decodes of a unit that carries a type offset, under a type-like
\* effective kind, that reach the type-offset check
ReachedTypeOffset ==
  /\ result \in {"ok", "TypeOffsetTooLarge"}
  /\ effective_kind = TYPE
  /\ unit_has_type_offset(call.unit)

RoundTripCall ==
  /\ Called /\ call.entry = "raw"
  /\ <<call.unit.version, call.unit.unit_type>> \in LegalVersionType
  /\ ~call.unit.wide_type_offset
  /\ call.sign_extend_vma >= 0
  /\ call.section_kind = NaturalKind(call.unit)

\* C6: encoding a legal header value (version 2..5, offset size 4 or 8) and
\* decoding the bytes reproduces every field, the length included.
C6_RoundTrip ==
  RoundTripCall =>
    /\ result = "ok"
    /\ header.length = call.unit.length
    /\ header.initial_length_size = call.unit.initial_length_size
    /\ header.offset_size = unit_offset_size(call.unit)
    /\ header.version = call.unit.version
    /\ header.unit_type = call.unit.unit_type
    /\ header.abbrev_sect_off = call.unit.abbrev_sect_off
    /\ header.addr_size = call.unit.addr_size
    /\ unit_has_signature(call.unit) => header.signature = call.unit.signature
    /\ unit_has_type_offset(call.unit) =>
         header.type_cu_offset_in_tu = call.unit.type_cu_offset_in_tu

\* the fields a call answers for: read_comp_unit_head leaves sect_off and
\* first_die_cu_offset to its caller
Responsible(c) ==
  IF c.entry = "raw" THEN Fields \ {"sect_off", "first_die_cu_offset"} ELSE Fields

\* the optional fields the decode did not read
Unread ==
  (IF HasRead("signature") THEN {} ELSE {"signature"})
  \cup (IF HasRead("type_cu_offset_in_tu") THEN {} ELSE {"type_cu_offset_in_tu"})

\* C10 as stated: after a successful decode every header field is what a
\* decode of the same unit into a fresh header yields, whatever was decoded
\* into the header before, signature and type offset of a compile unit
\* included.
C10_Original ==
  result = "ok" =>
    \A f \in Responsible(call) : header[f] = Outcome(ZeroHeader, call).h[f]

\* C10 amended: after a successful decode every field the decode read or
\* set is what a decode of the same unit into a fresh header yields; the
\* signature and the type offset keep their earlier contents when the
\* decode does not read them.
C10_HistoryIndependence ==
  result = "ok" =>
    /\ \A f \in Responsible(call) \ Unread :
         header[f] = Outcome(ZeroHeader, call).h[f]
    /\ HasRead("signature") <=>
         (effective_kind = TYPE
          \/ header.unit_type \in {DW_UT_skeleton, DW_UT_split_compile})
    /\ HasRead("type_cu_offset_in_tu") <=> (effective_kind = TYPE)

C10_Witness ==
  /\ result = "ok" /\ calls = 2
  /\ header.unit_type = DW_UT_compile
  /\ ~HasRead("signature")
  /\ header.signature = Sig0
  /\ header.type_cu_offset_in_tu = Pow32Plus(0)

Failed == result \notin {"ok", "none"}

\* C4 as stated: a failed decode leaves no field it wrote in the caller's
\* header.
C4_Original == [][Failed' => header' = header]_vars

\* the fields stored ahead of each failure
StoredBefore(err, c) ==
  LET base == {"length", "initial_length_size", "offset_size", "version"}
                \cup (IF c.entry = "checked" THEN {"sect_off"} ELSE {})
  IN CASE err = "BadVersion" -> base
       [] err = "BadUnitType" -> base \cup {"unit_type"}
       [] err = "InvalidObjectFile" ->
            base \cup {"unit_type", "addr_size", "abbrev_sect_off"}
       [] err = "TypeOffsetTooLarge" ->
            base \cup {"unit_type", "addr_size", "abbrev_sect_off", "signed_addr_p",
                       "signature", "type_cu_offset_in_tu"}
       [] OTHER -> Fields

\* C4 amended: a failed decode returns no cursor, and it leaves as they were
\* the fields that come after the point of failure; the fields stored ahead
\* of it (length, initial_length_size, offset_size and version always,
\* sect_off in the checked decode) hold what the failed decode stored.
C4_FailedDecode ==
  [][Failed' =>
       /\ ret' = NoCursor
       /\ \A f \in Fields \ StoredBefore(result', call') : header'[f] = header[f]
       /\ header'.length = Narrow(call'.unit.length, 4)
       /\ header'.initial_length_size = call'.unit.initial_length_size
       /\ header'.offset_size = unit_offset_size(call'.unit)
       /\ header'.version = call'.unit.version
       /\ call'.entry = "checked" => header'.sect_off = call'.sect_off]_vars

C4_Witness ==
  /\ result = "BadUnitType" /\ calls = 1
  /\ header.version = 5 /\ header.unit_type = DW_UT_lo_user
  /\ header.initial_length_size = 4 /\ header.length = FromNat(20)
  /\ header.addr_size = 0 /\ header.abbrev_sect_off = Zero64

====
